---- MODULE Spec2Model ----
(***************************************************************************)
(* Model of the infinite calendar (src/src/App.tsx).  The file holds two   *)
(* revisions of the App component: the first with WEEKS_TO_LOAD = 12,      *)
(* MAX_WEEKS_IN_MEMORY = 32 and a 20-week initial window, the second with  *)
(* WEEKS_TO_LOAD = 20, MAX_WEEKS_IN_MEMORY = 60 and a 60-week initial      *)
(* window.  The variable "variant" selects the revision that is running.   *)
(*                                                                         *)
(* Dates are day numbers counted from 2001-01-01, which is a Monday; the   *)
(* calendar operators below convert day numbers to year, month and day.    *)
(***************************************************************************)
EXTENDS Integers, Sequences, FiniteSets

VARIABLES
    variant,              \* 1 = App.tsx lines 1-168, 2 = App.tsx lines 170-364
    now,                  \* DateTime.now() at mount, as a day number
    weeks,                \* the committed useState value, rendered in the DOM
    queue,                \* setWeeks updaters queued by React, in issue order
    rafs,                 \* pending requestAnimationFrame callbacks, in order
    scrollAdjustmentRef,  \* scrollAdjustmentRef.current
    scrollY,              \* sum of the window.scrollBy calls made so far
    inView,               \* last intersection state reported per sentinel
    owed                  \* a committed loadMoreAbove changed the content
                          \* height and no scrollBy has run since its commit

vars == <<variant, now, weeks, queue, rafs, scrollAdjustmentRef, scrollY,
          inView, owed>>

----------------------------------------------------------------------------
(* Bounds of the model *)

NowMin == 2582
NowSpan == 1
MaxQueue == 2
MaxRafs == 2
MaxFar == 40

----------------------------------------------------------------------------
(* Program constants *)

WEEKS_TO_LOAD_1 == 12
MAX_WEEKS_IN_MEMORY_1 == 32
INITIAL_WEEKS_1 == 20
INITIAL_OFFSET_1 == 10
WEEKS_TO_LOAD_2 == 20
MAX_WEEKS_IN_MEMORY_2 == 60
RowHeight == 140

WEEKS_TO_LOAD(v) == IF v = 1 THEN WEEKS_TO_LOAD_1 ELSE WEEKS_TO_LOAD_2

MAX_WEEKS_IN_MEMORY(v) ==
    IF v = 1 THEN MAX_WEEKS_IN_MEMORY_1 ELSE MAX_WEEKS_IN_MEMORY_2

----------------------------------------------------------------------------
(* luxon DateTime at day granularity *)

\* 2001-01-01 is day 0; the four-year cycle 2001..2004 has 1461 days and
\* its last year is the leap year.  Valid for 2001-01-01 .. 2100-02-28.
CycleOf(d) == d \div 1461

YearInCycle(d) ==
    LET r == d % 1461 IN IF r \div 365 > 3 THEN 3 ELSE r \div 365

DayOfYear(d) == (d % 1461) - 365 * YearInCycle(d)

IsLeap(d) == YearInCycle(d) = 3

MonthLengthsCommon == <<31, 28, 31, 30, 31, 30, 31, 31, 30, 31, 30, 31>>

MonthLengthsLeap == <<31, 29, 31, 30, 31, 30, 31, 31, 30, 31, 30, 31>>

MonthLengths(leap) == IF leap THEN MonthLengthsLeap ELSE MonthLengthsCommon

DaysBeforeCommon == <<0, 31, 59, 90, 120, 151, 181, 212, 243, 273, 304, 334>>

DaysBeforeLeap == <<0, 31, 60, 91, 121, 152, 182, 213, 244, 274, 305, 335>>

\* days of the year before month m
DaysBefore(leap, m) ==
    IF leap THEN DaysBeforeLeap[m] ELSE DaysBeforeCommon[m]

year(d) == 2001 + 4 * CycleOf(d) + YearInCycle(d)

\* the month holding day-of-year doy (0-based)
MonthOf(leap, doy) ==
    CHOOSE m \in 1..12 :
        /\ DaysBefore(leap, m) <= doy
        /\ doy < DaysBefore(leap, m) + MonthLengths(leap)[m]

MonthOfCommon == [doy \in 0..364 |-> MonthOf(FALSE, doy)]

MonthOfLeap == [doy \in 0..365 |-> MonthOf(TRUE, doy)]

month(d) ==
    IF IsLeap(d) THEN MonthOfLeap[DayOfYear(d)] ELSE MonthOfCommon[DayOfYear(d)]

day(d) == DayOfYear(d) - DaysBefore(IsLeap(d), month(d)) + 1

\* 1 = Monday .. 7 = Sunday
weekday(d) == (d % 7) + 1

\* "YYYY-MM-DD" as the triple it spells
toISODate(d) == <<year(d), month(d), day(d)>>

plusDays(d, n) == d + n

plusWeeks(d, n) == d + 7 * n

minusWeeks(d, n) == d - 7 * n


\* variation: weeks that start on Sunday
startOfWeek_sunday(d) == d - ((d + 1) % 7)

\* startOf('week'): back to the Monday of the ISO week
startOfWeek(d) == d - (weekday(d) - 1)

----------------------------------------------------------------------------
(* Arrays *)

\* Array.from({ length: n }, (_, i) => f(i)) with f given as a function on 0..n-1
ArrayFrom(n, f) == [k \in 1..n |-> f[k - 1]]

\* updated.slice(0, n)
SliceHead(s, n) == SubSeq(s, 1, IF n < Len(s) THEN n ELSE Len(s))

\* updated.slice(-n)
SliceTail(s, n) == SubSeq(s, IF n < Len(s) THEN Len(s) - n + 1 ELSE 1, Len(s))

----------------------------------------------------------------------------
(* Weeks *)


\* variation: the days start one day after the start date
generateWeek_shifted(startDate) ==
    [id        |-> toISODate(startDate),
     startDate |-> startDate,
     days      |-> ArrayFrom(7, [i \in 0..6 |-> plusDays(startDate, i + 1)])]

generateWeek(startDate) ==
    [id        |-> toISODate(startDate),
     startDate |-> startDate,
     days      |-> ArrayFrom(7, [i \in 0..6 |-> plusDays(startDate, i)])]


\* variation: the first variant also fills the window to capacity
useStateInitializer_full(v, n) ==
    LET today == startOfWeek(n) IN
    ArrayFrom(MAX_WEEKS_IN_MEMORY(v),
        [i \in 0..(MAX_WEEKS_IN_MEMORY(v) - 1) |->
            generateWeek(plusWeeks(today, i - (MAX_WEEKS_IN_MEMORY(v) \div 2)))])

useStateInitializer(v, n) ==
    LET today == startOfWeek(n) IN
    IF v = 1
    THEN ArrayFrom(INITIAL_WEEKS_1,
             [i \in 0..(INITIAL_WEEKS_1 - 1) |->
                 generateWeek(plusWeeks(today, i - INITIAL_OFFSET_1))])
    ELSE ArrayFrom(MAX_WEEKS_IN_MEMORY(v),
             [i \in 0..(MAX_WEEKS_IN_MEMORY(v) - 1) |->
                 generateWeek(plusWeeks(today,
                                        i - (MAX_WEEKS_IN_MEMORY(v) \div 2)))])


\* variation: one batch fewer weeks back than the second variant loads
newWeeksAbove_short(v, firstWeek) ==
    ArrayFrom(WEEKS_TO_LOAD(v),
        [i \in 0..(WEEKS_TO_LOAD(v) - 1) |->
            generateWeek(minusWeeks(firstWeek, WEEKS_TO_LOAD_1 - i))])

newWeeksAbove(v, firstWeek) ==
    ArrayFrom(WEEKS_TO_LOAD(v),
        [i \in 0..(WEEKS_TO_LOAD(v) - 1) |->
            generateWeek(minusWeeks(firstWeek, WEEKS_TO_LOAD(v) - i))])


\* variation: the new weeks start at the last week itself
newWeeksBelow_offByOne(v, lastWeek) ==
    ArrayFrom(WEEKS_TO_LOAD(v),
        [i \in 0..(WEEKS_TO_LOAD(v) - 1) |->
            generateWeek(plusWeeks(lastWeek, i))])

newWeeksBelow(v, lastWeek) ==
    ArrayFrom(WEEKS_TO_LOAD(v),
        [i \in 0..(WEEKS_TO_LOAD(v) - 1) |->
            generateWeek(plusWeeks(lastWeek, i + 1))])


\* variation: no truncation
truncateAbove_none(v, updated) == updated


\* variation: the excess is dropped from the head
truncateAbove_head(v, updated) ==
    IF Len(updated) > MAX_WEEKS_IN_MEMORY(v)
    THEN SliceTail(updated, MAX_WEEKS_IN_MEMORY(v))
    ELSE updated

truncateAbove(v, updated) ==
    IF Len(updated) > MAX_WEEKS_IN_MEMORY(v)
    THEN SliceHead(updated, MAX_WEEKS_IN_MEMORY(v))
    ELSE updated


\* variation: the excess is dropped from the tail
truncateBelow_tail(v, updated) ==
    IF Len(updated) > MAX_WEEKS_IN_MEMORY(v)
    THEN SliceHead(updated, MAX_WEEKS_IN_MEMORY(v))
    ELSE updated


\* variation: a window over capacity keeps one week fewer than capacity
truncateBelow_short(v, updated) ==
    IF Len(updated) > MAX_WEEKS_IN_MEMORY(v)
    THEN SliceTail(updated, MAX_WEEKS_IN_MEMORY(v) - 1)
    ELSE updated

truncateBelow(v, updated) ==
    IF Len(updated) > MAX_WEEKS_IN_MEMORY(v)
    THEN SliceTail(updated, MAX_WEEKS_IN_MEMORY(v))
    ELSE updated

\* the updater passed to setWeeks by loadMoreAbove
loadMoreAboveUpdater(v, prev) ==
    truncateAbove(v, newWeeksAbove(v, prev[1].startDate) \o prev)

\* the updater passed to setWeeks by loadMoreBelow
loadMoreBelowUpdater(v, prev) ==
    truncateBelow(v, prev \o newWeeksBelow(v, prev[Len(prev)].startDate))

\* document.documentElement.scrollHeight up to the fixed chrome (header and
\* sentinels), which cancels in every difference the program takes
scrollHeight(ws) == Len(ws) * RowHeight

----------------------------------------------------------------------------
(* React state queue *)

applyUpdater(v, kind, prev) ==
    IF kind = "above" THEN loadMoreAboveUpdater(v, prev)
                      ELSE loadMoreBelowUpdater(v, prev)


\* variation: every updater works on the snapshot taken before the triggers,
\* and the last one wins
processUpdateQueue_stale(v, state, q) ==
    IF q = <<>> THEN state ELSE applyUpdater(v, q[Len(q)].kind, state)

\* React hands each queued updater the state the previous one returned
RECURSIVE processUpdateQueue(_, _, _)
processUpdateQueue(v, state, q) ==
    IF q = <<>> THEN state
    ELSE processUpdateQueue(v, applyUpdater(v, Head(q).kind, state), Tail(q))

\* the requestAnimationFrame callbacks scheduled by the updaters that run
\* during this render (an updater computed eagerly at setWeeks time has
\* scheduled its callback already)
RECURSIVE scheduledByRender(_, _)
scheduledByRender(v, q) ==
    IF q = <<>> THEN <<>>
    ELSE (IF v = 1 /\ Head(q).kind = "above" /\ ~Head(q).ran
          THEN <<Head(q).before>> ELSE <<>>) \o scheduledByRender(v, Tail(q))

hasAbove(q) == \E k \in 1..Len(q) : q[k].kind = "above"

----------------------------------------------------------------------------
(* Derived display values (render) *)

\* weeks[weekIndex + 1]: the next week, or nothing (undefined) after the last
nextWeekOf(ws, weekIndex) ==
    IF weekIndex + 1 < Len(ws) THEN <<ws[weekIndex + 2]>> ELSE <<>>

hasMonthBoundaryBetweenWeeks(currentWeek, nextWeek) ==
    IF nextWeek = <<>> THEN FALSE
    ELSE \E i \in 0..6 :
            month(currentWeek.days[i + 1]) # month(nextWeek[1].days[i + 1])

\* variation: the years are compared
hasMonthBoundaryAfter_year(week, dayIndex) ==
    /\ dayIndex + 1 < Len(week.days)
    /\ year(week.days[dayIndex + 1]) # year(week.days[dayIndex + 2])

\* nextDay && day.month !== nextDay.month, nextDay = week.days[dayIndex + 1]
hasMonthBoundaryAfter(week, dayIndex) ==
    /\ dayIndex + 1 < Len(week.days)
    /\ month(week.days[dayIndex + 1]) # month(week.days[dayIndex + 2])

\* the value of getMonthLabel for a week with no first of a month
NoLabel == <<>>

\* toFormat('MMMM yyyy'): the month and the year it spells
toFormatMonthYear(d) == <<month(d), year(d)>>

\* variation: only the first day of the week is looked at
getMonthLabel_firstDay(week) ==
    IF day(week.days[1]) = 1 THEN toFormatMonthYear(week.days[1]) ELSE NoLabel

\* week.days.find(day => day.day === 1), then its 'MMMM yyyy'
getMonthLabel(week) ==
    LET found == {i \in 1..Len(week.days) : day(week.days[i]) = 1} IN
    IF found = {} THEN NoLabel
    ELSE toFormatMonthYear(
             week.days[CHOOSE i \in found : \A j \in found : i <= j])

----------------------------------------------------------------------------
(* State machine *)

Sentinels == {"top", "bottom"}

Directions == [top |-> "above", bottom |-> "below"]

Init ==
    /\ variant \in {1, 2}
    /\ now \in NowMin..(NowMin + NowSpan)
    /\ weeks = useStateInitializer(variant, now)
    /\ queue = <<>>
    /\ rafs = <<>>
    /\ scrollAdjustmentRef = 0
    /\ scrollY = 0
    /\ inView = [s \in Sentinels |-> FALSE]
    /\ owed = FALSE


\* variation: the handler loads on every change
onChangeLoads_always(isInView) == TRUE

\* onChange: (inView) => { if (inView) loadMore...() }
onChangeLoads(isInView) == isInView

\* the model stops issuing extensions once the window is MaxFar weeks away
\* from the anchor week, or the queues are full
CanLoad(s) ==
    /\ Len(queue) < MaxQueue
    /\ s = "top" =>
         /\ weeks[1].startDate > minusWeeks(startOfWeek(now), MaxFar)
         /\ Len(rafs) + Len(scheduledByRender(variant, queue)) < MaxRafs
    /\ s = "bottom" =>
         weeks[Len(weeks)].startDate < plusWeeks(startOfWeek(now), MaxFar)

\* loadMoreAbove / loadMoreBelow: setWeeks(updater).  With an empty queue
\* React may run the updater at once (eager state), which in the first
\* variant schedules the animation frame callback before the render.
loadMore(s, eager) ==
    LET kind   == Directions[s]
        timed  == variant = 1 /\ kind = "above"
        before == IF timed THEN scrollHeight(weeks) ELSE 0
        ran    == timed /\ eager
    IN  /\ queue' = Append(queue, [kind |-> kind, before |-> before, ran |-> ran])
        /\ rafs' = IF ran THEN Append(rafs, before) ELSE rafs

\* the intersection observer reports a change of one sentinel
SentinelChange(s) ==
    /\ inView' = [inView EXCEPT ![s] = ~inView[s]]
    /\ IF onChangeLoads(inView'[s])
       THEN /\ CanLoad(s)
            /\ \E eager \in {FALSE, queue = <<>>} : loadMore(s, eager)
       ELSE UNCHANGED <<queue, rafs>>
    /\ UNCHANGED <<variant, now, weeks, scrollAdjustmentRef, scrollY, owed>>

\* useLayoutEffect(..., [weeks]): whether it scrolls
layoutEffectScrolls(ref) == ref # 0

\* React renders and commits: the queued updaters run in order, the DOM
\* shows the new weeks, then the layout effect runs
Commit ==
    /\ queue # <<>>
    /\ weeks' = processUpdateQueue(variant, weeks, queue)
    /\ queue' = <<>>
    /\ rafs' = rafs \o scheduledByRender(variant, queue)
    /\ IF layoutEffectScrolls(scrollAdjustmentRef)
       THEN /\ scrollY' = scrollY + scrollAdjustmentRef
            /\ scrollAdjustmentRef' = 0
            /\ owed' = FALSE
       ELSE /\ UNCHANGED <<scrollY, scrollAdjustmentRef>>
            /\ owed' = (owed \/ (hasAbove(queue)
                                  /\ scrollHeight(weeks') # scrollHeight(weeks)))
    /\ UNCHANGED <<variant, now, inView>>

\* the browser runs the oldest pending animation frame callback
RunAnimationFrame ==
    /\ rafs # <<>>
    /\ scrollAdjustmentRef' = scrollHeight(weeks) - Head(rafs)
    /\ rafs' = Tail(rafs)
    /\ UNCHANGED <<variant, now, weeks, queue, scrollY, inView, owed>>

Next ==
    \/ \E s \in Sentinels : SentinelChange(s)
    \/ Commit
    \/ RunAnimationFrame

Spec == Init /\ [][Next]_vars

----------------------------------------------------------------------------
(* The updaters as functions of any valid window *)

\* n contiguous weeks from the week that starts on f
Window(f, n) == ArrayFrom(n, [i \in 0..(n - 1) |-> generateWeek(plusWeeks(f, i))])

\* the setWeeks calls of the given kinds, issued on the window ws
Issued(v, ws, kinds) ==
    [k \in 1..Len(kinds) |->
        [kind   |-> kinds[k],
         before |-> IF v = 1 /\ kinds[k] = "above" THEN scrollHeight(ws) ELSE 0,
         ran    |-> FALSE]]

KindSeqs == UNION {[1..n -> {"above", "below"}] : n \in 1..MaxQueue}

\* prev is any valid window of 1..MAX_WEEKS_IN_MEMORY weeks that begins where
\* the initial window begins, with up to MaxQueue extensions issued on it
InitWindows ==
    /\ variant \in {1, 2}
    /\ now \in NowMin..(NowMin + NowSpan)
    /\ \E n \in 1..MAX_WEEKS_IN_MEMORY(variant) :
          weeks = Window(useStateInitializer(variant, now)[1].startDate, n)
    /\ \E kinds \in KindSeqs : queue = Issued(variant, weeks, kinds)
    /\ rafs = <<>>
    /\ scrollAdjustmentRef = 0
    /\ scrollY = 0
    /\ inView = [s \in Sentinels |-> FALSE]
    /\ owed = FALSE

NextWindows ==
    \/ Commit
    \/ RunAnimationFrame

SpecWindows == InitWindows /\ [][NextWindows]_vars

TypeOK ==
    /\ variant \in {1, 2}
    /\ Len(weeks) > 0
    /\ Len(queue) <= MaxQueue

----------------------------------------------------------------------------
(* Properties *)

first(ws) == ws[1].startDate

last(ws) == ws[Len(ws)].startDate

Min(a, b) == IF a < b THEN a ELSE b

Contiguous(ws) ==
    \A i \in 1..(Len(ws) - 1) : ws[i + 1].startDate = ws[i].startDate + 7

\* the window still is (or is again) the one the initializer built
AtInitialization ==
    /\ first(weeks) = first(useStateInitializer(variant, now))
    /\ weeks = useStateInitializer(variant, now)

\* the window has been extended away from its initial position
Moved == first(weeks) # first(useStateInitializer(variant, now))

\* 0-based indices of the weeks that hold the anchor date and start on Monday
AnchorIndices ==
    {i \in 0..(Len(weeks) - 1) :
        /\ weekday(weeks[i + 1].startDate) = 1
        /\ weeks[i + 1].startDate <= now
        /\ now <= weeks[i + 1].startDate + 6}

\* C1: in every committed state the window holds at most capacity
\* (MAX_WEEKS_IN_MEMORY) weeks.
C1_LengthAtMostCapacity == Len(weeks) <= MAX_WEEKS_IN_MEMORY(variant)

\* a window at capacity that extensions have moved
C1_Witness ==
    /\ Len(weeks) = MAX_WEEKS_IN_MEMORY(variant)
    /\ Moved
    /\ queue = <<>>

\* C2: in every reachable state adjacent weeks start exactly 7 days apart,
\* so the window is strictly ascending and its ids are pairwise distinct.
C2_Contiguous ==
    /\ Contiguous(weeks)
    /\ \A i \in 1..(Len(weeks) - 1) : weeks[i].startDate < weeks[i + 1].startDate
    /\ Cardinality({weeks[i].id : i \in 1..Len(weeks)}) = Len(weeks)

\* a window extended forward beyond the initial one
C2_Witness ==
    /\ last(weeks) > last(useStateInitializer(variant, now))
    /\ Len(weeks) = MAX_WEEKS_IN_MEMORY(variant)

\* C3 as stated: right after initialization the window holds exactly
\* capacity weeks.
C3_Original == AtInitialization => Len(weeks) = MAX_WEEKS_IN_MEMORY(variant)

\* C3 amended: right after initialization the window holds exactly capacity
\* (60) weeks in the 60/20 variant and 20 weeks, fewer than its capacity of
\* 32, in the 32/12 variant.
C3_InitialLength ==
    AtInitialization =>
        /\ variant = 2 => Len(weeks) = 60 /\ Len(weeks) = MAX_WEEKS_IN_MEMORY(2)
        /\ variant = 1 => Len(weeks) = 20 /\ Len(weeks) < MAX_WEEKS_IN_MEMORY(1)

\* the initial window of the first variant, before any extension
C3_Witness ==
    /\ AtInitialization
    /\ variant = 1
    /\ queue = <<>>
    /\ ~inView["top"] /\ ~inView["bottom"]

\* C4 as stated: the anchor week sits at index floor(capacity / 2) of the
\* initial window, with floor(capacity / 2) weeks before it and
\* capacity - floor(capacity / 2) - 1 weeks after it.
C4_Original ==
    AtInitialization =>
        LET half == MAX_WEEKS_IN_MEMORY(variant) \div 2 IN
        /\ AnchorIndices = {half}
        /\ Len(weeks) - half - 1 = MAX_WEEKS_IN_MEMORY(variant) - half - 1

\* C4 amended: the initial window contains the week of the anchor date at
\* index floor(length / 2) of the initial window: index 30 of 60 in the 60/20
\* variant (30 weeks before, 29 after) and index 10 of 20 in the 32/12
\* variant (10 weeks before, 9 after).
C4_AnchorCentred ==
    AtInitialization =>
        /\ AnchorIndices = {Len(weeks) \div 2}
        /\ variant = 2 => AnchorIndices = {30} /\ Len(weeks) - 30 - 1 = 29
        /\ variant = 1 => AnchorIndices = {10} /\ Len(weeks) - 10 - 1 = 9

\* an initial window whose anchor date is not itself a Monday
C4_Witness ==
    /\ AtInitialization
    /\ weekday(now) # 1
    /\ AnchorIndices # {}
    /\ inView = [s \in Sentinels |-> FALSE]

\* a commit whose queue holds exactly the updaters of the given kinds
Commits(kinds) ==
    /\ queue' = <<>>
    /\ Len(queue) = Len(kinds)
    /\ \A k \in 1..Len(kinds) : queue[k].kind = kinds[k]

\* C5: extendBackward on a window of length n yields a window whose first
\* week starts loadBatchSize weeks before the previous first week, whose
\* length is min(n + loadBatchSize, capacity), and which holds the
\* loadBatchSize preceding weeks followed by the earliest old weeks (the
\* excess is dropped from the tail).
C5_ExtendBackward ==
    [][Commits(<<"above">>) =>
        LET B == WEEKS_TO_LOAD(variant)
            n == Len(weeks)
        IN  /\ first(weeks') = first(weeks) - 7 * B
            /\ Len(weeks') = Min(n + B, MAX_WEEKS_IN_MEMORY(variant))
            /\ \A i \in 1..Len(weeks') :
                  IF i <= B
                  THEN weeks'[i].startDate = first(weeks) - 7 * (B - i + 1)
                  ELSE weeks'[i] = weeks[i - B]]_vars

\* a full window after backward extensions only: its newest weeks are gone
C5_Witness ==
    /\ Len(weeks) = MAX_WEEKS_IN_MEMORY(variant)
    /\ first(weeks) < first(useStateInitializer(variant, now))
    /\ last(weeks) < last(useStateInitializer(variant, now))
    /\ queue = <<>>

\* C6: extendForward on a window of length n yields a window whose last week
\* starts loadBatchSize weeks after the previous last week, whose length is
\* min(n + loadBatchSize, capacity), and which holds the latest old weeks
\* followed by the loadBatchSize following weeks (the excess is dropped from
\* the head).
C6_ExtendForward ==
    [][Commits(<<"below">>) =>
        LET B == WEEKS_TO_LOAD(variant)
            n == Len(weeks)
            m == Min(n + B, MAX_WEEKS_IN_MEMORY(variant))
        IN  /\ last(weeks') = last(weeks) + 7 * B
            /\ Len(weeks') = m
            /\ \A i \in 1..m :
                  IF i > m - B
                  THEN weeks'[i].startDate = last(weeks) + 7 * (B - (m - i))
                  ELSE weeks'[i] = weeks[i + (n + B - m)]]_vars

\* a full window after forward extensions only: its oldest weeks are gone
C6_Witness ==
    /\ Len(weeks) = MAX_WEEKS_IN_MEMORY(variant)
    /\ first(weeks) > first(useStateInitializer(variant, now))
    /\ last(weeks) > last(useStateInitializer(variant, now))
    /\ queue = <<>>

\* the first week and the length one extension gives, from those before it
Extended(kind, v, f, n) ==
    LET B == WEEKS_TO_LOAD(v)
        m == Min(n + B, MAX_WEEKS_IN_MEMORY(v))
    IN  IF kind = "above" THEN <<f - 7 * B, m>>
        ELSE <<f + 7 * (n + B - m), m>>

\* the first week and the length after the queued extensions, in issue order
RECURSIVE ExtendedAll(_, _, _, _)
ExtendedAll(q, v, f, n) ==
    IF q = <<>> THEN <<f, n>>
    ELSE LET e == Extended(Head(q).kind, v, f, n)
         IN  ExtendedAll(Tail(q), v, e[1], e[2])

\* C7: extensions issued before any render commit as their sequential
\* application in issue order: each works on the result of the one issued
\* before it, and the committed window has no gap and no duplicate id.
C7_Serialized ==
    [][(queue' = <<>> /\ Len(queue) >= 2) =>
        LET e == ExtendedAll(queue, variant, first(weeks), Len(weeks))
        IN  /\ first(weeks') = e[1]
            /\ Len(weeks') = e[2]
            /\ Contiguous(weeks')
            /\ Cardinality({weeks'[i].id : i \in 1..Len(weeks')}) = Len(weeks')]_vars

\* two loadMoreAbove calls were queued together and committed: both of their
\* animation frame callbacks carry the height of the 20-week window
C7_Witness ==
    /\ variant = 1
    /\ queue = <<>>
    /\ rafs = <<scrollHeight(useStateInitializer(1, now)),
                scrollHeight(useStateInitializer(1, now))>>
    /\ Len(weeks) = MAX_WEEKS_IN_MEMORY(1)
    /\ first(weeks) = first(useStateInitializer(1, now)) - 7 * 2 * WEEKS_TO_LOAD(1)

\* C8 as stated: every committed extendBackward gets its corrective
\* scrollBy(heightAfter - heightBefore) within the frame of its commit, so
\* once no animation frame callback is pending and no update is queued, no
\* committed backward extension that changed the content height is left
\* without its scrollBy.
C8_Original == ~(owed /\ rafs = <<>> /\ queue = <<>>)

\* C9: each sentinel's change to intersecting issues exactly one extension
\* in its direction, and nothing else issues an extension (not a change to
\* not intersecting, and no step while the sentinel stays as it is).
C9_EdgeTriggered ==
    [][/\ \A s \in Sentinels :
             (~inView[s] /\ inView'[s]) =>
                 /\ Len(queue') = Len(queue) + 1
                 /\ SubSeq(queue', 1, Len(queue)) = queue
                 /\ queue'[Len(queue')].kind = Directions[s]
       /\ Len(queue') > Len(queue) =>
             \E s \in Sentinels : ~inView[s] /\ inView'[s]
       /\ (\E s \in Sentinels : inView[s] /\ ~inView'[s]) => queue' = queue]_vars

\* the top sentinel has left the region with the extension of its entry
\* still queued, alone
C9_Witness ==
    /\ ~inView["top"]
    /\ Len(queue) = 1
    /\ queue[1].kind = "above"

\* the weeks of ws that are missing from ws2
Trimmed(ws, ws2) ==
    {i \in 1..Len(ws) : \A j \in 1..Len(ws2) : ws2[j] # ws[i]}

\* C10 as stated: with capacity 60 and batch 20, one extendBackward of the
\* initial window moves the first week back by 20 x 7 days, keeps the length
\* at 60 and trims 30 weeks from the tail.
C10_Original ==
    [][(variant = 2 /\ AtInitialization /\ Commits(<<"above">>)) =>
        /\ first(weeks') = first(weeks) - 20 * 7
        /\ Len(weeks') = 60
        /\ Cardinality(Trimmed(weeks, weeks')) = 30]_vars

\* C10 amended: with capacity 60 and batch 20, one extendBackward of the
\* initial window moves the first week back by 20 x 7 days, keeps the length
\* at 60 and trims 20 weeks (the batch size) from the tail.
C10_SingleBackward ==
    [][(variant = 2 /\ AtInitialization /\ Commits(<<"above">>)) =>
        /\ first(weeks') = first(weeks) - 20 * 7
        /\ Len(weeks') = 60
        /\ Trimmed(weeks, weeks') = 41..60]_vars

\* the second variant one backward extension away from its initial window
C10_Witness ==
    /\ variant = 2
    /\ first(weeks) = first(useStateInitializer(2, now)) - 20 * 7
    /\ Len(weeks) = 60
    /\ queue = <<>>
    /\ inView["top"]

\* the first week of the windows SpecWindows starts from
WindowsFirst == first(useStateInitializer(variant, now))

\* C11: on a valid window of length n with n + 2 x loadBatchSize <= capacity,
\* extendForward followed by extendBackward gives the window that spans from
\* loadBatchSize weeks before the old first week to loadBatchSize weeks after
\* the old last week, keeps every old week, and equals the result of the two
\* extensions in the opposite order.
C11_NoNetShift ==
    [][(Commits(<<"below", "above">>)
        /\ Len(weeks) + 2 * WEEKS_TO_LOAD(variant) <= MAX_WEEKS_IN_MEMORY(variant)) =>
        LET B == WEEKS_TO_LOAD(variant) IN
        /\ first(weeks') = first(weeks) - 7 * B
        /\ last(weeks') = last(weeks) + 7 * B
        /\ Contiguous(weeks')
        /\ \A i \in 1..Len(weeks) : weeks'[i + B] = weeks[i]
        /\ weeks' = loadMoreBelowUpdater(variant,
                        loadMoreAboveUpdater(variant, weeks))]_vars

\* an 8-week window of the first variant after one forward and one backward
\* extension: 32 weeks from 12 weeks before its first week
C11_Witness ==
    /\ variant = 1
    /\ queue = <<>>
    /\ rafs = <<8 * RowHeight>>
    /\ Len(weeks) = 8 + 2 * WEEKS_TO_LOAD(1)
    /\ first(weeks) = WindowsFirst - 7 * WEEKS_TO_LOAD(1)

\* C13 as stated: extendForward never causes a scroll adjustment: the commit
\* of forward extensions alone leaves the scroll offset as it is, also when
\* an earlier extendBackward left an adjustment pending.
C13_Original ==
    [][(queue # <<>> /\ queue' = <<>> /\ ~hasAbove(queue)) =>
        scrollY' = scrollY]_vars

\* the start date of the week shown at the top of the viewport of a page
\* that was loaded at scroll offset 0 and is scrolled by the program alone,
\* every week row being RowHeight high
TopWeek == first(weeks) + 7 * (scrollY \div RowHeight)

\* C14 as stated: with week rows of equal height, an extendBackward and its
\* scroll compensation leave the week at the top of the viewport the same,
\* below capacity and at capacity: once a backward extension is committed and
\* no compensation is left to come (no animation frame callback pending, no
\* adjustment stored), the top week is the one shown before the extension.
C14_Original ==
    [][(Commits(<<"above">>) /\ rafs' = <<>> /\ scrollAdjustmentRef' = 0) =>
        TopWeek' = TopWeek]_vars

\* the day number a valid "YYYY-MM-DD" names, counted as a calendar counts:
\* whole years since 2001, their leap days, the months before, the days
DayNumber(iso) ==
    LET y == iso[1] - 2001 IN
    365 * y + (y \div 4) + DaysBefore(iso[1] % 4 = 0, iso[2]) + iso[3] - 1

ValidDate(iso) ==
    /\ Len(iso) = 3
    /\ iso[2] \in 1..12
    /\ iso[3] \in 1..MonthLengths(iso[1] % 4 = 0)[iso[2]]

\* C15: every resident week holds exactly 7 days, days[i] = startDate + i
\* days for i in 0..6, its id is the ISO date of its start date, and its
\* start date is a Monday.
C15_WholeWeeks ==
    \A k \in 1..Len(weeks) :
        LET w == weeks[k] IN
        /\ Len(w.days) = 7
        /\ \A i \in 0..6 : w.days[i + 1] = w.startDate + i
        /\ ValidDate(w.id)
        /\ DayNumber(w.id) = w.startDate
        /\ weekday(w.startDate) = 1

\* a full window that extensions have moved and that holds a leap day
C15_Witness ==
    /\ Moved
    /\ Len(weeks) = MAX_WEEKS_IN_MEMORY(variant)
    /\ \E k \in 1..Len(weeks) : \E i \in 1..7 :
          toISODate(weeks[k].days[i]) = <<2008, 2, 29>>

\* C16 as stated: for every pair of chronologically adjacent rendered days,
\* the last day of a week and the first day of the next week included, the
\* month-boundary flag of the earlier day is true iff the months differ.
C16_Original ==
    variant = 2 =>
        \A k \in 1..Len(weeks) : \A i \in 0..6 :
            (i < 6 \/ k < Len(weeks)) =>
                LET d == weeks[k].days[i + 1]
                    n == IF i < 6 THEN weeks[k].days[i + 2]
                                  ELSE weeks[k + 1].days[1]
                IN  hasMonthBoundaryAfter(weeks[k], i) <=> (month(d) # month(n))

\* C16 amended (second variant, the one that computes the flags): for two
\* adjacent days of the same week the flag of the earlier day is true iff
\* their months differ; the last day of a week never has the flag, whatever
\* the month of the next week's first day.  Between weeks only the week-level
\* flag exists: it is true iff the week has a next week and the month of its
\* first day differs from the month of the next week's last day.
C16_MonthBoundary ==
    variant = 2 =>
        \A k \in 1..Len(weeks) :
            /\ \A i \in 0..5 :
                  hasMonthBoundaryAfter(weeks[k], i)
                      <=> (month(weeks[k].startDate + i)
                              # month(weeks[k].startDate + i + 1))
            /\ ~hasMonthBoundaryAfter(weeks[k], 6)
            /\ hasMonthBoundaryBetweenWeeks(weeks[k], nextWeekOf(weeks, k - 1))
                  <=> (k < Len(weeks)
                       /\ month(weeks[k].startDate)
                              # month(weeks[k].startDate + 13))

\* a moved window of the second variant with a month that ends on a Sunday
\* (no flag on that day) and a month that ends inside a week (flag set)
C16_Witness ==
    /\ variant = 2
    /\ Moved
    /\ \E k \in 1..(Len(weeks) - 1) :
          /\ month(weeks[k].days[7]) # month(weeks[k + 1].days[1])
          /\ ~hasMonthBoundaryAfter(weeks[k], 6)
    /\ \E k \in 1..Len(weeks) : \E i \in 0..5 : hasMonthBoundaryAfter(weeks[k], i)

\* C17: getMonthLabel gives the month and year of the day of the week whose
\* day-of-month is 1, and none when the week has no such day; a week holds at
\* most one such day.
C17_MonthLabel ==
    \A k \in 1..Len(weeks) :
        LET w == weeks[k]
            firsts == {d \in w.startDate..(w.startDate + 6) : day(d) = 1}
            label == getMonthLabel(w)
        IN  /\ Cardinality(firsts) <= 1
            /\ firsts = {} => label = NoLabel
            /\ \A d \in firsts :
                  /\ label = <<month(d), year(d)>>
                  /\ label = <<month(w.startDate + 6), year(w.startDate + 6)>>

\* a moved window that shows the label of March 2008, whose first day is a
\* Saturday, and a week without a label
C17_Witness ==
    /\ Moved
    /\ \E k \in 1..Len(weeks) : getMonthLabel(weeks[k]) = <<3, 2008>>
    /\ \E k \in 1..Len(weeks) : getMonthLabel(weeks[k]) = NoLabel

\* C18: the window never shrinks: over every step its length does not
\* decrease, a commit of k extensions sets it to
\* min(length + k x loadBatchSize, capacity) (k = 1: one extension), and a
\* window at capacity stays at capacity.
C18_NeverShrinks ==
    [][/\ Len(weeks') >= Len(weeks)
       /\ (queue # <<>> /\ queue' = <<>>) =>
             Len(weeks') = Min(Len(weeks) + Len(queue) * WEEKS_TO_LOAD(variant),
                               MAX_WEEKS_IN_MEMORY(variant))
       /\ Len(weeks) = MAX_WEEKS_IN_MEMORY(variant) =>
             Len(weeks') = MAX_WEEKS_IN_MEMORY(variant)]_vars

\* the first variant grown from 20 to 32 weeks and then extended forward at
\* capacity
C18_Witness ==
    /\ variant = 1
    /\ Len(weeks) = MAX_WEEKS_IN_MEMORY(1)
    /\ first(weeks) > first(useStateInitializer(1, now))
    /\ last(weeks) >= last(useStateInitializer(1, now)) + 7 * 2 * WEEKS_TO_LOAD(1)
    /\ queue = <<>>

\* C19: on a window at full capacity extendForward then extendBackward gives
\* back exactly the original window, and so does extendBackward then
\* extendForward; on a window below capacity with
\* length + 2 x loadBatchSize > capacity the two orders give different windows.
C19_RoundTrip ==
    [][(Len(queue) = 2 /\ queue' = <<>> /\ queue[1].kind # queue[2].kind) =>
        LET B == WEEKS_TO_LOAD(variant)
            C == MAX_WEEKS_IN_MEMORY(variant)
            otherOrder == applyUpdater(variant, queue[1].kind,
                              applyUpdater(variant, queue[2].kind, weeks))
        IN  /\ Len(weeks) = C => weeks' = weeks
            /\ (Len(weeks) < C /\ Len(weeks) + 2 * B > C) =>
                  /\ weeks' # otherOrder
                  /\ first(weeks') # first(otherOrder)]_vars

\* a full 32-week window of the first variant, back where it began after a
\* forward and a backward extension committed together
C19_Witness ==
    /\ variant = 1
    /\ queue = <<>>
    /\ rafs = <<MAX_WEEKS_IN_MEMORY(1) * RowHeight>>
    /\ Len(weeks) = MAX_WEEKS_IN_MEMORY(1)
    /\ first(weeks) = WindowsFirst

====
